---- MODULE Spec2Model ----
(***************************************************************************)
(* Model of the timing-deviation core of the Web Theremin analysis         *)
(* scripts (gesture_sync_analyzer.py): the onset extractor loop of         *)
(* analyze_synchronization, calculate_deviations and                       *)
(* calculate_precision_metrics.                                            *)
(*                                                                         *)
(* Numbers.  The code works on floats (seconds, then milliseconds).  The   *)
(* model uses exact arithmetic: a time is an integer number of time units  *)
(* (one unit = one second in the small cases below), a deviation is the    *)
(* integer (t - r) * 1000, and means and variances are exact rationals     *)
(* [num, den].  Floating-point rounding is outside the model.  A standard  *)
(* deviation is kept as Sqrt(q), the non-negative root of the rational q;  *)
(* Sqrt(Zero) is the number 0.                                             *)
(*                                                                         *)
(* Indices are 1-based here and 0-based in the code.                       *)
(***************************************************************************)
EXTENDS Integers, Sequences, FiniteSets, TLC

\* ------------------------------------------------------------------------
\* Bounds of the model
\* ------------------------------------------------------------------------
\* longest message stream
MaxMsgs == 3
\* largest onset time handed directly to calculate_deviations
MaxTime == 3
\* longest reference sequence handed directly to calculate_deviations
MaxRefs == 3
\* longest source sequence handed directly to calculate_deviations
MaxNotes == 2

\* largest absolute value of a deviation handed directly to
\* calculate_precision_metrics
MaxDev == 3
\* longest deviation array handed directly to calculate_precision_metrics
MaxDevs == 3
\* largest lag of a gesture behind its click in the end-to-end scenario,
\* in hundredths of a second
MaxLag == 3

\* longest message stream of a whole run of a script
MaxRunMsgs == 2

\* largest deviation handed to the graph and to the report, in steps of
\* 20 ms, and the longest such deviation array
MaxReportDev == 1
MaxReportDevs == 2

\* longest message stream given to the converter
MaxCsvMsgs == 2

\* largest number of events of a trace
MaxTraceEvents == 3

\* largest number of gestures of a plan and of rows of the MIDI CSV file
MaxGestures == 2
MaxCsvRows == 2

\* ------------------------------------------------------------------------
\* Program constants
\* ------------------------------------------------------------------------
METRONOME_NOTE == 24
KEYBOARD_NOTE == 48
THEREMIN_NOTE == 60

\* ------------------------------------------------------------------------
\* Inputs
\* ------------------------------------------------------------------------
\* note numbers that occur in the streams: the three roles and one other
Notes == {METRONOME_NOTE, KEYBOARD_NOTE, THEREMIN_NOTE, 61}
Velocities == {0, 64}
\* relative deltas of the messages: none or one time unit
Deltas == {0, 1}

\* a mido message as the extractor sees it; a control_change message has
\* neither note nor velocity
Messages ==
    [type : {"note_on"}, time : Deltas, note : Notes, velocity : Velocities]
    \cup [type : {"note_off"}, time : Deltas, note : {THEREMIN_NOTE}, velocity : {64}]
    \cup [type : {"control_change"}, time : Deltas]

SeqsUpTo(S, n) == UNION {[1..k -> S] : k \in 0..n}

Streams == SeqsUpTo(Messages, MaxMsgs)
NoteSeqs == SeqsUpTo(0..MaxTime, MaxNotes)
RefSeqs == SeqsUpTo(0..MaxTime, MaxRefs)

DevSeqs == SeqsUpTo((-MaxDev)..MaxDev, MaxDevs)

\* the end-to-end scenario, in hundredths of a second: metronome clicks at
\* 0, 50, 100 and 150 and one gesture a, b, c hundredths after each of the
\* first three clicks
Click(delta) ==
    [type |-> "note_on", time |-> delta, note |-> METRONOME_NOTE, velocity |-> 64]
Gesture(delta) ==
    [type |-> "note_on", time |-> delta, note |-> THEREMIN_NOTE, velocity |-> 64]
ScenarioStream(a, b, c) ==
    <<Click(0), Gesture(a), Click(50 - a), Gesture(b), Click(50 - b),
      Gesture(c), Click(50 - c)>>
ScenarioStreams ==
    {ScenarioStream(a, b, c) : a \in 1..MaxLag, b \in 1..MaxLag, c \in 1..MaxLag}

VARIABLES
    pc,                  \* position of the run
    mid,                 \* the message stream of the MIDI file
    idx,                 \* number of messages of mid already scanned
    absolute_time,       \* the accumulator of analyze_synchronization
    metronome_times,
    theremin_times,
    keyboard_times,
    theremin_deviations,
    keyboard_deviations,
    theremin_metrics,
    keyboard_metrics,
    note_times,          \* arguments, result of a direct call of
    reference_times,     \*   calculate_deviations
    deviations,
    metrics,             \* result of calculate_precision_metrics(deviations)
    raised,              \* TRUE when an exception left a function
    script,              \* the script that runs
    files,               \* what the run finds on disk when it starts
    opts,                \* the command-line options of the run
    disk,                \* what the run has put on disk, per artifact
    printed,             \* the kinds of message printed so far
    failed,              \* the artifacts whose generation has failed
    formats_to_save,     \* the formats a chart is still to be saved in
    stats_text,          \* the summary panel of the graph
    report_content,      \* the synchronization report
    rows,                \* the rows written to the CSV export
    trace,               \* the events of the trace file
    results,             \* what analyze_trace returned
    plan,                \* the gesture plan
    df,                  \* the rows of the MIDI CSV file
    analysis_results     \* what analyze_gesture_detection returned

vars == <<pc, mid, idx, absolute_time, metronome_times, theremin_times,
          keyboard_times, theremin_deviations, keyboard_deviations,
          theremin_metrics, keyboard_metrics, note_times, reference_times,
          deviations, metrics, raised, script, files, opts, disk, printed,
          failed, formats_to_save, stats_text, report_content, rows, trace,
          results, plan, df, analysis_results>>

scanVars == <<absolute_time, metronome_times, theremin_times, keyboard_times>>
fnVars == <<note_times, reference_times, deviations, metrics>>
textVars == <<stats_text, report_content>>
traceVars == <<trace, results>>
gestureVars == <<plan, df, analysis_results>>
outVars == <<textVars, rows, traceVars, gestureVars>>
ioVars == <<script, files, opts, disk, printed, failed, formats_to_save,
            outVars>>

\* ------------------------------------------------------------------------
\* Exact rational arithmetic
\* ------------------------------------------------------------------------
Abs(x) == IF x < 0 THEN -x ELSE x

RECURSIVE GCD(_, _)
GCD(a, b) == IF b = 0 THEN a ELSE GCD(b, a % b)

\* the rational n/d in lowest terms, d > 0
Rat(n, d) ==
    LET g == GCD(Abs(n), d)
    IN  [num |-> n \div g, den |-> d \div g]

Zero == [num |-> 0, den |-> 1]
\* the float nan
NaN == [num |-> 0, den |-> 0]
FromInt(n) == [num |-> n, den |-> 1]

RAdd(a, b) ==
    LET l == (a.den \div GCD(a.den, b.den)) * b.den
    IN  Rat(a.num * (l \div a.den) + b.num * (l \div b.den), l)
RSub(a, b) == RAdd(a, [num |-> -b.num, den |-> b.den])
RMul(a, b) ==
    LET g1 == GCD(Abs(a.num), b.den)
        g2 == GCD(Abs(b.num), a.den)
    IN  Rat((a.num \div g1) * (b.num \div g2), (a.den \div g2) * (b.den \div g1))
RAbs(a) == [num |-> Abs(a.num), den |-> a.den]
RLess(a, b) == a.num * b.den < b.num * a.den

Sqrt(q) == [radicand |-> q]

RECURSIVE RSum(_)
RSum(xs) == IF xs = <<>> THEN Zero ELSE RAdd(xs[1], RSum(Tail(xs)))

\* ------------------------------------------------------------------------
\* numpy reductions
\* ------------------------------------------------------------------------
ToRats(xs) == [i \in 1..Len(xs) |-> FromInt(xs[i])]

\* np.mean: nan (with a warning, no exception) on an empty array
NpMean(xs) ==
    IF xs = <<>> THEN NaN ELSE RMul(RSum(xs), Rat(1, Len(xs)))

\* np.std with ddof=1: the sample form, nan for a single value
NpStd_sample(xs) ==
    IF Len(xs) <= 1 THEN Sqrt(NaN)
    ELSE LET m == NpMean(xs)
             sq == [i \in 1..Len(xs) |-> RMul(RSub(xs[i], m), RSub(xs[i], m))]
         IN  Sqrt(RMul(RSum(sq), Rat(1, Len(xs) - 1)))

\* np.std: sqrt(mean(abs(x - x.mean())**2)), the population form (ddof=0)
NpStd(xs) ==
    IF xs = <<>> THEN Sqrt(NaN)
    ELSE LET m == NpMean(xs)
             sq == [i \in 1..Len(xs) |-> RMul(RSub(xs[i], m), RSub(xs[i], m))]
         IN  Sqrt(NpMean(sq))

RECURSIVE ArgMinScanLast(_, _, _)
ArgMinScanLast(a, i, best) ==
    IF i > Len(a) THEN best
    ELSE ArgMinScanLast(a, i + 1, IF a[i] <= a[best] THEN i ELSE best)

\* ArgMin that keeps the last of several equal minima
ArgMinLast(a) == ArgMinScanLast(a, 2, 1)

RECURSIVE ArgMinScan(_, _, _)
ArgMinScan(a, i, best) ==
    IF i > Len(a) THEN best
    ELSE ArgMinScan(a, i + 1, IF a[i] < a[best] THEN i ELSE best)

\* np.argmin of a non-empty array: the first occurrence of the minimum
ArgMin(a) == ArgMinScan(a, 2, 1)

\* ------------------------------------------------------------------------
\* calculate_deviations
\* ------------------------------------------------------------------------
\* outcome of a call: a returned value or an exception
Return(v) == [raised |-> FALSE, value |-> v]
Raise == [raised |-> TRUE, value |-> <<>>]

\* np.abs(reference_times - note_time)
AbsDiff(refs, note_time) == [j \in 1..Len(refs) |-> Abs(refs[j] - note_time)]

\* matching against the first reference at or after the note (the last
\* reference when there is none)
closest_ref_idx_following(note_time, refs) ==
    IF \E j \in 1..Len(refs) : refs[j] >= note_time
    THEN CHOOSE j \in 1..Len(refs) :
            /\ refs[j] >= note_time
            /\ \A j2 \in 1..(j - 1) : refs[j2] < note_time
    ELSE Len(refs)

closest_ref_idx(note_time, refs) == ArgMin(AbsDiff(refs, note_time))

\* deviation with the operands of the subtraction exchanged
deviation_swapped(note_time, refs) ==
    (refs[closest_ref_idx(note_time, refs)] - note_time) * 1000

deviation(note_time, refs) ==
    (note_time - refs[closest_ref_idx(note_time, refs)]) * 1000

\* loop that runs over the reference onsets instead of the note onsets
ForEachNote_over_refs(notes, refs) ==
    IF Len(notes) > 0 /\ Len(refs) = 0 THEN Raise
    ELSE Return([k \in 1..Len(refs) |-> deviation(refs[k], refs)])

\* loop that inserts each deviation at the front of the list
ForEachNote_prepend(notes, refs) ==
    IF Len(notes) > 0 /\ Len(refs) = 0 THEN Raise
    ELSE Return([k \in 1..Len(notes) |->
                    deviation(notes[Len(notes) + 1 - k], refs)])

\* the for loop: np.argmin raises ValueError on an empty reference array
ForEachNote(notes, refs) ==
    IF Len(notes) > 0 /\ Len(refs) = 0 THEN Raise
    ELSE Return([k \in 1..Len(notes) |-> deviation(notes[k], refs)])

\* calculate_deviations whose guard tests the note array only
calculate_deviations_note_guard(notes, refs) ==
    IF Len(notes) = 0 THEN Return(<<>>)
    ELSE ForEachNote(notes, refs)

calculate_deviations(notes, refs) ==
    IF Len(notes) = 0 \/ Len(refs) = 0 THEN Return(<<>>)
    ELSE ForEachNote(notes, refs)

\* ------------------------------------------------------------------------
\* calculate_precision_metrics
\* ------------------------------------------------------------------------
NoMetrics == [offset_sistematico |-> Zero,
              precisao_real |-> Sqrt(Zero),
              desvio_absoluto_medio |-> Zero,
              precisao_corrigida |-> Sqrt(Zero),
              eventos_analisados |-> 0]

\* the computation with the corrected precision taken over the absolute
\* values of the re-centred deviations
ComputeMetrics_corrected_abs(devs) ==
    LET xs == ToRats(devs)
        offset_sistematico == NpMean(xs)
        deviations_corrigidos ==
            [i \in 1..Len(xs) |-> RAbs(RSub(xs[i], offset_sistematico))]
    IN  [offset_sistematico |-> offset_sistematico,
         precisao_real |-> NpStd(xs),
         desvio_absoluto_medio |-> NpMean([i \in 1..Len(xs) |-> RAbs(xs[i])]),
         precisao_corrigida |-> NpStd(deviations_corrigidos),
         eventos_analisados |-> Len(devs)]

\* the computation with the offset taken over the absolute values
ComputeMetrics_offset_abs(devs) ==
    LET xs == ToRats(devs)
        offset_sistematico == NpMean([i \in 1..Len(xs) |-> RAbs(xs[i])])
        deviations_corrigidos ==
            [i \in 1..Len(xs) |-> RSub(xs[i], offset_sistematico)]
    IN  [offset_sistematico |-> offset_sistematico,
         precisao_real |-> NpStd(xs),
         desvio_absoluto_medio |-> NpMean([i \in 1..Len(xs) |-> RAbs(xs[i])]),
         precisao_corrigida |-> NpStd(deviations_corrigidos),
         eventos_analisados |-> Len(devs)]

\* the computation with np.abs applied after the mean instead of before
ComputeMetrics_abs_of_mean(devs) ==
    LET xs == ToRats(devs)
        offset_sistematico == NpMean(xs)
        deviations_corrigidos ==
            [i \in 1..Len(xs) |-> RSub(xs[i], offset_sistematico)]
    IN  [offset_sistematico |-> offset_sistematico,
         precisao_real |-> NpStd(xs),
         desvio_absoluto_medio |-> RAbs(NpMean(xs)),
         precisao_corrigida |-> NpStd(deviations_corrigidos),
         eventos_analisados |-> Len(devs)]

\* the computation of lines 60-74, for any array
ComputeMetrics(devs) ==
    LET xs == ToRats(devs)
        offset_sistematico == NpMean(xs)
        deviations_corrigidos ==
            [i \in 1..Len(xs) |-> RSub(xs[i], offset_sistematico)]
    IN  [offset_sistematico |-> offset_sistematico,
         precisao_real |-> NpStd(xs),
         desvio_absoluto_medio |-> NpMean([i \in 1..Len(xs) |-> RAbs(xs[i])]),
         precisao_corrigida |-> NpStd(deviations_corrigidos),
         eventos_analisados |-> Len(devs)]

\* calculate_precision_metrics without the test for an empty array
calculate_precision_metrics_no_guard(devs) == ComputeMetrics(devs)

calculate_precision_metrics(devs) ==
    IF Len(devs) = 0 THEN NoMetrics ELSE ComputeMetrics(devs)

\* ------------------------------------------------------------------------
\* The extractor loop of analyze_synchronization
\* ------------------------------------------------------------------------
\* accumulator that restarts at every message
Accumulate_reset(t, msg) == msg.time

\* accumulator that advances on note messages only
Accumulate_notes_only(t, msg) ==
    IF msg.type \in {"note_on", "note_off"} THEN t + msg.time ELSE t

\* absolute_time += msg.time
Accumulate(t, msg) == t + msg.time

\* onset test without the velocity condition
IsOnset_any_velocity(msg) == msg.type = "note_on"

\* msg.type == 'note_on' and msg.velocity > 0
IsOnset(msg) == msg.type = "note_on" /\ msg.velocity > 0

\* routing whose last branch is an else
Route_else_keyboard(msg) ==
    IF msg.note = METRONOME_NOTE THEN "metronome"
    ELSE IF msg.note = THEREMIN_NOTE THEN "theremin"
    ELSE "keyboard"

\* the if / elif / elif chain on msg.note
Route(msg) ==
    IF msg.note = METRONOME_NOTE THEN "metronome"
    ELSE IF msg.note = THEREMIN_NOTE THEN "theremin"
    ELSE IF msg.note = KEYBOARD_NOTE THEN "keyboard"
    ELSE "none"

\* the list an onset is appended to, "none" when the message is no onset
Target(msg) == IF IsOnset(msg) THEN Route(msg) ELSE "none"

\* ------------------------------------------------------------------------
\* Files, options and output of a run of a script
\* ------------------------------------------------------------------------
\* "sync" is gesture_sync_analyzer.py, "csv" midi_to_csv_converter.py,
\* "trace" analyze-trace.py and "timeline" plot_midi_timeline.py
Scripts == {"sync", "csv", "trace", "timeline"}

\* an input file is missing, exists but cannot be parsed, or is well formed
FileStates == {"missing", "malformed", "ok"}

\* the output directory, the chart in each format, the Markdown report and
\* the CSV export.  The trace script saves several figures and the timeline
\* script one chart per section; the model has one chart per format.
Artifacts == {"dir", "png", "svg", "pdf", "report", "csv"}
OutputFiles == Artifacts \ {"dir"}

NothingOnDisk == [a \in Artifacts |-> "absent"]

\* the values of --graph-format / --format of each script
FormatChoices(s) ==
    IF s = "sync" THEN {"png", "svg", "pdf", "both"}
    ELSE IF s = "csv" THEN {"png"}
    ELSE {"png", "svg", "both"}

\* the flags that select the artifacts; the converter has none
FlagChoices(s) == IF s = "csv" THEN {FALSE} ELSE BOOLEAN

\* main is the positional input file, plan the gesture plan of the timeline
\* script, dir tells whether the output directory exists before the run
FileChoices(s) ==
    [main : FileStates,
     plan : IF s = "timeline" THEN FileStates ELSE {"ok"},
     dir : BOOLEAN]

\* the messages of a run: short streams over four kinds of message
RunMessages == {Click(1), Gesture(1),
                [type |-> "note_off", time |-> 1, note |-> THEREMIN_NOTE,
                 velocity |-> 64],
                [type |-> "control_change", time |-> 1, channel |-> 0,
                 control |-> 7, value |-> 100]}
RunStreams == SeqsUpTo(RunMessages, MaxRunMsgs)

\* os.makedirs(output_dir, exist_ok=True)
MakeDirs(d) == IF files.dir THEN d ELSE [d EXCEPT !["dir"] = "complete"]

\* formats_to_save of generate_sync_graph and of generate_plots
FormatsToSave(format) ==
    IF format = "both" THEN <<"png", "svg">> ELSE <<format>>

\* formats_to_save of the section plots of plot_midi_timeline.py
TimelineFormatsToSave(format) ==
    IF format = "both" THEN <<"svg", "png">> ELSE <<format>>

\* Python's None, and a value that is not None
None == <<>>
Some(v) == <<v>>

\* a plan file without gestures
NoPlan == [bpm |-> 120, gestures |-> <<>>]

\* nothing has been computed or written yet
InitOut ==
    /\ stats_text = None
    /\ report_content = None
    /\ rows = <<>>
    /\ results = None
    /\ analysis_results = None

\* no trace, plan or CSV file is read
InitNoInputs ==
    /\ trace = <<>>
    /\ plan = NoPlan
    /\ df = <<>>

\* no script runs: a function is called directly
InitNoScript ==
    /\ script = "none"
    /\ files = [main |-> "ok", plan |-> "ok", dir |-> TRUE]
    /\ opts = [graph |-> FALSE, report |-> FALSE, format |-> "png"]
    /\ disk = NothingOnDisk
    /\ printed = {}
    /\ failed = {}
    /\ formats_to_save = <<>>
    /\ InitOut
    /\ InitNoInputs

\* analyze_synchronization with the default options, past the file checks
InitSyncDefaults ==
    /\ script = "sync"
    /\ files = [main |-> "ok", plan |-> "ok", dir |-> TRUE]
    /\ opts = [graph |-> TRUE, report |-> TRUE, format |-> "png"]
    /\ disk = NothingOnDisk
    /\ printed = {}
    /\ failed = {}
    /\ formats_to_save = <<>>
    /\ InitOut
    /\ InitNoInputs

InitFn ==
    /\ note_times = <<>>
    /\ reference_times = <<>>
    /\ deviations = <<>>
    /\ metrics = NoMetrics

InitRun ==
    /\ absolute_time = 0
    /\ idx = 0
    /\ metronome_times = <<>>
    /\ theremin_times = <<>>
    /\ keyboard_times = <<>>
    /\ theremin_deviations = <<>>
    /\ keyboard_deviations = <<>>
    /\ theremin_metrics = NoMetrics
    /\ keyboard_metrics = NoMetrics
    /\ raised = FALSE

\* analyze_synchronization has read the file and is about to scan it
Init ==
    /\ pc = "scan"
    /\ mid \in Streams
    /\ InitRun
    /\ InitFn
    /\ InitSyncDefaults

\* one iteration of `for msg in mid`
ScanMsg ==
    /\ pc = "scan"
    /\ idx < Len(mid)
    /\ LET msg == mid[idx + 1]
           t == Accumulate(absolute_time, msg)
           target == Target(msg)
       IN  /\ absolute_time' = t
           /\ metronome_times' =
                 IF target = "metronome" THEN Append(metronome_times, t)
                 ELSE metronome_times
           /\ theremin_times' =
                 IF target = "theremin" THEN Append(theremin_times, t)
                 ELSE theremin_times
           /\ keyboard_times' =
                 IF target = "keyboard" THEN Append(keyboard_times, t)
                 ELSE keyboard_times
    /\ idx' = idx + 1
    /\ UNCHANGED ioVars
    /\ UNCHANGED <<pc, mid, theremin_deviations, keyboard_deviations,
                   theremin_metrics, keyboard_metrics, raised>>
    /\ UNCHANGED fnVars

\* end of the loop: conversion to arrays and the two calculate_deviations
\* calls; an exception of either call leaves analyze_synchronization
Deviations ==
    /\ pc = "scan"
    /\ idx = Len(mid)
    /\ LET th == calculate_deviations(theremin_times, metronome_times)
           kb == calculate_deviations(keyboard_times, metronome_times)
       IN  IF th.raised \/ kb.raised
           THEN /\ raised' = TRUE
                /\ pc' = "raised"
                /\ UNCHANGED <<theremin_deviations, keyboard_deviations>>
           ELSE /\ theremin_deviations' = th.value
                /\ keyboard_deviations' = kb.value
                /\ pc' = "metrics"
                /\ UNCHANGED raised
    /\ UNCHANGED <<mid, idx, theremin_metrics, keyboard_metrics>>
    /\ UNCHANGED scanVars
    /\ UNCHANGED ioVars
    /\ UNCHANGED fnVars

\* the two calculate_precision_metrics calls of generate_sync_graph
Metrics ==
    /\ pc = "metrics"
    /\ theremin_metrics' = calculate_precision_metrics(theremin_deviations)
    /\ keyboard_metrics' = calculate_precision_metrics(keyboard_deviations)
    /\ pc' = "done"
    /\ UNCHANGED <<mid, idx, theremin_deviations, keyboard_deviations, raised>>
    /\ UNCHANGED scanVars
    /\ UNCHANGED ioVars
    /\ UNCHANGED fnVars

Next == ScanMsg \/ Deviations \/ Metrics

Spec == Init /\ [][Next]_vars

\* ------------------------------------------------------------------------
\* calculate_deviations and calculate_precision_metrics called directly,
\* on arbitrary (also unsorted) arrays
\* ------------------------------------------------------------------------
InitCall ==
    /\ pc = "call"
    /\ mid = <<>>
    /\ InitRun
    /\ InitNoScript
    /\ note_times \in NoteSeqs
    /\ reference_times \in RefSeqs
    /\ deviations = <<>>
    /\ metrics = NoMetrics

CallDeviations ==
    /\ pc = "call"
    /\ LET r == calculate_deviations(note_times, reference_times)
       IN  /\ deviations' = r.value
           /\ raised' = r.raised
           /\ pc' = IF r.raised THEN "call_raised" ELSE "returned"
    /\ UNCHANGED <<note_times, reference_times, metrics>>
    /\ UNCHANGED <<mid, idx, theremin_deviations, keyboard_deviations,
                   theremin_metrics, keyboard_metrics>>
    /\ UNCHANGED scanVars
    /\ UNCHANGED ioVars

CallMetrics ==
    /\ pc = "returned"
    /\ metrics' = calculate_precision_metrics(deviations)
    /\ pc' = "call_done"
    /\ UNCHANGED <<note_times, reference_times, deviations, raised>>
    /\ UNCHANGED <<mid, idx, theremin_deviations, keyboard_deviations,
                   theremin_metrics, keyboard_metrics>>
    /\ UNCHANGED scanVars
    /\ UNCHANGED ioVars

NextCall == CallDeviations \/ CallMetrics

SpecCall == InitCall /\ [][NextCall]_vars

\* ------------------------------------------------------------------------
\* calculate_precision_metrics called directly on an arbitrary array
\* ------------------------------------------------------------------------
InitMetrics ==
    /\ pc = "metrics_call"
    /\ mid = <<>>
    /\ InitRun
    /\ InitNoScript
    /\ note_times = <<>>
    /\ reference_times = <<>>
    /\ deviations \in DevSeqs
    /\ metrics = NoMetrics

DirectMetrics ==
    /\ pc = "metrics_call"
    /\ metrics' = calculate_precision_metrics(deviations)
    /\ pc' = "metrics_done"
    /\ UNCHANGED <<note_times, reference_times, deviations, raised>>
    /\ UNCHANGED <<mid, idx, theremin_deviations, keyboard_deviations,
                   theremin_metrics, keyboard_metrics>>
    /\ UNCHANGED scanVars
    /\ UNCHANGED ioVars

NextMetrics == DirectMetrics

SpecMetrics == InitMetrics /\ [][NextMetrics]_vars

\* ------------------------------------------------------------------------
\* analyze_synchronization on the streams of the end-to-end scenario
\* ------------------------------------------------------------------------
InitScenario ==
    /\ pc = "scan"
    /\ mid \in ScenarioStreams
    /\ InitRun
    /\ InitFn
    /\ InitSyncDefaults

SpecScenario == InitScenario /\ [][Next]_vars

\* ------------------------------------------------------------------------
\* analyze-trace.py: analyze_trace
\* ------------------------------------------------------------------------
\* an event of the trace: a 'frame-process' user-timing measure that is
\* complete (ph X, with dur) or a begin mark (ph b), a FunctionCall, or an
\* event of no interest; ts in microseconds, whole milliseconds
TraceEvents ==
    [name : {"frame-process"}, ph : {"X", "b"},
     ts : {0, 10000, 40000, 90000, 150000}]
    \cup [name : {"FunctionCall", "Layout"}, ph : {"X"},
          ts : {0, 10000, 40000, 90000, 150000}]
Traces == SeqsUpTo(TraceEvents, MaxTraceEvents)

\* the traces of the whole runs: FunctionCall events only
RunTraces ==
    SeqsUpTo([name : {"FunctionCall"}, ph : {"X"}, ts : {10000, 40000}],
             MaxRunMsgs)

\* sorted(xs)
RECURSIVE Insert(_, _)
Insert(x, xs) ==
    IF xs = <<>> THEN <<x>>
    ELSE IF x <= Head(xs) THEN <<x>> \o xs
    ELSE <<Head(xs)>> \o Insert(x, Tail(xs))
RECURSIVE Sorted(_)
Sorted(xs) == IF xs = <<>> THEN <<>> ELSE Insert(Head(xs), Sorted(Tail(xs)))

\* the events whose timestamps are the frames: the complete frame-process
\* measures if there is one, else the begin marks if there is a
\* frame-process event at all, else the FunctionCall events
FrameEvents(events) ==
    LET IsMeasure(e) == e.name = "frame-process"
        IsComplete(e) == e.name = "frame-process" /\ e.ph = "X"
        IsBegin(e) == e.name = "frame-process" /\ e.ph = "b"
        IsCall(e) == e.name = "FunctionCall"
        measure_events == SelectSeq(events, IsMeasure)
        complete_events == SelectSeq(events, IsComplete)
    IN  IF measure_events # <<>>
        THEN IF complete_events # <<>> THEN complete_events
             ELSE SelectSeq(events, IsBegin)
        ELSE SelectSeq(events, IsCall)

\* sorted([e['ts'] / 1000 for e in frame_events if e.get('ts')]), in
\* milliseconds: an event with ts 0 is left out
Timestamps(events) ==
    LET HasTs(e) == e.ts # 0
        kept == SelectSeq(FrameEvents(events), HasTs)
    IN  Sorted([i \in 1..Len(kept) |-> kept[i].ts \div 1000])

Intervals(timestamps) ==
    [i \in 1..(Len(timestamps) - 1) |-> timestamps[i + 1] - timestamps[i]]

\* the float inf, the result of a numpy division of a positive number by 0
Inf == [num |-> 1, den |-> 0]

\* a / b for a numpy float b and a > 0: inf with a warning when b is 0
NpDiv(a, b) == IF b.num = 0 THEN Inf ELSE RMul(a, [num |-> b.den, den |-> b.num])

BucketNames == {"<10", "10-15", "15-20", "20-30", ">30"}

\* independent tests with both ends of the 20-30 bucket excluded
Bucket_strict_lower(fps) ==
    IF RLess(fps, FromInt(10)) THEN "<10"
    ELSE IF RLess(fps, FromInt(15)) THEN "10-15"
    ELSE IF RLess(fps, FromInt(20)) THEN "15-20"
    ELSE IF RLess(FromInt(20), fps) /\ RLess(fps, FromInt(30)) THEN "20-30"
    ELSE IF ~RLess(fps, FromInt(30)) THEN ">30"
    ELSE "none"

\* the if / elif chain of the bucket loop
Bucket(fps) ==
    IF RLess(fps, FromInt(10)) THEN "<10"
    ELSE IF RLess(fps, FromInt(15)) THEN "10-15"
    ELSE IF RLess(fps, FromInt(20)) THEN "15-20"
    ELSE IF RLess(fps, FromInt(30)) THEN "20-30"
    ELSE ">30"

\* buckets after the loop over the intervals, none of them 0
FpsDistribution(intervals) ==
    [b \in BucketNames |->
        Cardinality({i \in 1..Len(intervals) :
                        Bucket(Rat(1000, intervals[i])) = b})]

Min(xs) == CHOOSE x \in {xs[i] : i \in 1..Len(xs)} :
              \A i \in 1..Len(xs) : x <= xs[i]
Max(xs) == CHOOSE x \in {xs[i] : i \in 1..Len(xs)} :
              \A i \in 1..Len(xs) : x >= xs[i]

\* the results of a trace with at least two timestamps, its first and last
\* apart and no two of them equal
FpsResults(timestamps) ==
    LET intervals == Intervals(timestamps)
        avg_interval == NpMean(ToRats(intervals))
        duration == Rat(timestamps[Len(timestamps)] - timestamps[1], 1000)
        total_frames == Len(timestamps)
    IN  [fps_analysis |->
            [duration |-> duration,
             total_frames |-> total_frames,
             effective_fps |->
                RMul(FromInt(total_frames),
                     [num |-> duration.den, den |-> duration.num]),
             avg_fps |-> NpDiv(FromInt(1000), avg_interval),
             min_fps |-> NpDiv(FromInt(1000), FromInt(Max(intervals))),
             max_fps |-> NpDiv(FromInt(1000), FromInt(Min(intervals))),
             avg_interval |-> avg_interval,
             min_interval |-> Min(intervals),
             max_interval |-> Max(intervals)],
         fps_distribution |-> FpsDistribution(intervals),
         timestamps |-> timestamps,
         intervals |-> intervals]

\* the guard that lets a single timestamp through
analyze_trace_one_is_enough(events) ==
    LET timestamps == Timestamps(events)
        intervals == Intervals(timestamps)
    IN  IF Len(timestamps) < 1 THEN Return(None)
        ELSE IF timestamps[Len(timestamps)] = timestamps[1] THEN Raise
        ELSE IF \E i \in 1..Len(intervals) : intervals[i] = 0 THEN Raise
        ELSE Return(Some(FpsResults(timestamps)))

\* analyze_trace once the file is loaded: None below two timestamps;
\* total_frames / duration and 1000 / interval are divisions of Python
\* floats, which raise ZeroDivisionError on 0.0
analyze_trace(events) ==
    LET timestamps == Timestamps(events)
        intervals == Intervals(timestamps)
    IN  IF Len(timestamps) < 2 THEN Return(None)
        ELSE IF timestamps[Len(timestamps)] = timestamps[1] THEN Raise
        ELSE IF \E i \in 1..Len(intervals) : intervals[i] = 0 THEN Raise
        ELSE Return(Some(FpsResults(timestamps)))

\* ------------------------------------------------------------------------
\* plot_midi_timeline.py: analyze_gesture_detection
\* ------------------------------------------------------------------------
\* an entry of the plan's "gestures": the gesture name as its parts around
\* " - ", the beats of its time range, the MIDI it should produce, and
\* attempts, which may be left out.  The time key
\* f"{start}-{end}" of two ranges of whole beats is the same exactly when
\* the ranges are the same, so a range is its own key.
GestureItems ==
    [gesture : {<<"Secao", "Pinca">>, <<"Pinca">>},
     time_range_beats : {[start |-> 1, end |-> 2], [start |-> 2, end |-> 3]},
     expected_midi : {[type |-> "note_on"]},
     attempts : {None, Some(0), Some(1)}]
    \cup [gesture : {<<"Secao", "Pinca">>, <<"Pinca">>},
          time_range_beats : {[start |-> 1, end |-> 2], [start |-> 2, end |-> 3]},
          expected_midi : {[type |-> "control_change", control |-> 7]},
          attempts : {Some(1)}]
Plans == [bpm : {120}, gestures : SeqsUpTo(GestureItems, MaxGestures)]

\* the rows of the MIDI CSV file, timestamp_s in half seconds
CsvRows ==
    [timestamp_s : {0, 1}, type : {"note_on"}, note : {60}]
    \cup [timestamp_s : {1}, type : {"control_change"}, control : {7},
          value : {0, 1}]
DataFrames == SeqsUpTo(CsvRows, MaxCsvRows)

\* 60.0 / bpm, in half seconds
BeatDuration(bpm) == 120 \div bpm

\* item.get("attempts", 16)
Attempts(item) == IF item.attempts = None THEN 16 ELSE item.attempts[1]

\* df[(df["timestamp_s"] >= start_s) & (df["timestamp_s"] <= end_s)]
SectionData(d, start_s, end_s) ==
    LET Inside(r) == r.timestamp_s >= start_s /\ r.timestamp_s <= end_s
    IN  SelectSeq(d, Inside)

\* the rows that are control changes of controller control_num
CcEvents(section_data, control_num) ==
    LET IsCc(r) == r.type = "control_change" /\ r.control = control_num
    IN  SelectSeq(section_data, IsCc)

NoteEvents(section_data) ==
    LET IsNoteOn(r) == r.type = "note_on"
    IN  SelectSeq(section_data, IsNoteOn)

\* len(np.where(np.diff(values) != 0)[0]) + 1
ValueChanges(cc_events) ==
    Cardinality({k \in 1..(Len(cc_events) - 1) :
                    cc_events[k + 1].value # cc_events[k].value}) + 1

RMin(a, b) == IF RLess(b, a) THEN b ELSE a

\* len(note_events) / attempts if attempts > 0 else 0
NoteOnRate(note_events, attempts) ==
    IF attempts > 0 THEN Rat(Len(note_events), attempts) ELSE Zero

\* min(value_changes / attempts, 1.0) if attempts > 0 else 0, and 0.0 when
\* no control change was found
CcRate(cc_events, attempts) ==
    IF cc_events = <<>> THEN Zero
    ELSE IF attempts > 0
         THEN RMin(Rat(ValueChanges(cc_events), attempts), FromInt(1))
         ELSE Zero

\* the indices of the plan whose time range is that of gesture i
SameRange(gesture_plan, i) ==
    LET Same(k) == gesture_plan[k].time_range_beats
                       = gesture_plan[i].time_range_beats
    IN  SelectSeq([k \in 1..Len(gesture_plan) |-> k], Same)

\* the keys of sections_by_time in insertion order, each as the index of
\* the first gesture with that time range
TimeKeys(gesture_plan) ==
    LET First(i) == SameRange(gesture_plan, i)[1] = i
    IN  SelectSeq([k \in 1..Len(gesture_plan) |-> k], First)

\* the analysis of a time range that holds one gesture
SectionAnalysis(i, item, d, midi_start_offset, beat_duration_s) ==
    LET time_range == item.time_range_beats
        start_s == midi_start_offset + (time_range.start - 1) * beat_duration_s
        end_s == midi_start_offset + (time_range.end - 1) * beat_duration_s
        attempts == Attempts(item)
        section_data == IF d = <<>> THEN <<>> ELSE SectionData(d, start_s, end_s)
        note_events == NoteEvents(section_data)
        cc_events == IF item.expected_midi.type = "control_change"
                     THEN CcEvents(section_data, item.expected_midi.control)
                     ELSE <<>>
    IN  [section_index |-> i,
         gesture_name |-> item.gesture,
         time_range_beats |-> time_range,
         expected_attempts |-> attempts,
         total_events |-> Len(section_data),
         detected_events |->
            IF item.expected_midi.type = "note_on" THEN Len(note_events)
            ELSE IF item.expected_midi.type = "control_change"
                 THEN Len(cc_events)
            ELSE 0,
         detection_rate |->
            IF item.expected_midi.type = "note_on"
            THEN NoteOnRate(note_events, attempts)
            ELSE IF item.expected_midi.type = "control_change"
                 THEN CcRate(cc_events, attempts)
            ELSE Zero]

\* the analysis of one gesture of a simultaneous group
SubsectionAnalysis(item, section_data) ==
    LET attempts == Attempts(item)
        cc_events == IF item.expected_midi.type = "control_change"
                     THEN CcEvents(section_data, item.expected_midi.control)
                     ELSE <<>>
    IN  [gesture_name |-> item.gesture,
         expected_attempts |-> attempts,
         detected_events |-> Len(cc_events),
         detection_rate |-> CcRate(cc_events, attempts)]

\* the analysis of a time range that holds several gestures
CombinedAnalysis(members, gesture_plan, d, midi_start_offset, beat_duration_s) ==
    LET time_range == gesture_plan[members[1]].time_range_beats
        start_s == midi_start_offset + (time_range.start - 1) * beat_duration_s
        end_s == midi_start_offset + (time_range.end - 1) * beat_duration_s
        section_data == IF d = <<>> THEN <<>> ELSE SectionData(d, start_s, end_s)
    IN  [gesture_name |->
            [k \in 1..Len(members) |-> gesture_plan[members[k]].gesture[2]],
         time_range_beats |-> time_range,
         total_events |-> Len(section_data),
         subsections |->
            [k \in 1..Len(members) |->
                SubsectionAnalysis(gesture_plan[members[k]], section_data)]]

RECURSIVE SumSeq(_)
SumSeq(xs) == IF xs = <<>> THEN 0 ELSE Head(xs) + SumSeq(Tail(xs))

RECURSIVE Flatten(_)
Flatten(xss) == IF xss = <<>> THEN <<>> ELSE Head(xss) \o Flatten(Tail(xss))

\* the detection rates of the sections and subsections, in order
DetectionRates(sections) ==
    Flatten([k \in 1..Len(sections) |->
                IF "subsections" \in DOMAIN sections[k]
                THEN [m \in 1..Len(sections[k].subsections) |->
                         sections[k].subsections[m].detection_rate]
                ELSE <<sections[k].detection_rate>>])

RMaxOf(xs) == CHOOSE x \in {xs[i] : i \in 1..Len(xs)} :
                 \A i \in 1..Len(xs) : ~RLess(x, xs[i])
RMinOf(xs) == CHOOSE x \in {xs[i] : i \in 1..Len(xs)} :
                 \A i \in 1..Len(xs) : ~RLess(xs[i], x)

Summary(sections) ==
    LET detection_rates == DetectionRates(sections)
    IN  [total_planned_attempts |->
            SumSeq(Flatten([k \in 1..Len(sections) |->
                IF "subsections" \in DOMAIN sections[k]
                THEN [m \in 1..Len(sections[k].subsections) |->
                         sections[k].subsections[m].expected_attempts]
                ELSE <<sections[k].expected_attempts>>])),
         average_detection_rate |->
            IF detection_rates = <<>> THEN Zero ELSE NpMean(detection_rates),
         sections_analyzed |-> Len(sections),
         best_detection_rate |->
            IF detection_rates = <<>> THEN Zero ELSE RMaxOf(detection_rates),
         worst_detection_rate |->
            IF detection_rates = <<>> THEN Zero ELSE RMinOf(detection_rates)]

\* analyze_gesture_detection once both files are read.  The name of a
\* simultaneous group takes item["gesture"].split(" - ")[1] of each of its
\* gestures, which raises IndexError for a name without " - ".
analyze_gesture_detection(d, p) ==
    LET beat_duration_s == BeatDuration(p.bpm)
        gesture_plan == p.gestures
        midi_start_offset ==
            IF d = <<>> THEN 0
            ELSE Min([k \in 1..Len(d) |-> d[k].timestamp_s])
        keys == TimeKeys(gesture_plan)
        Members(k) == SameRange(gesture_plan, keys[k])
        sections ==
            [k \in 1..Len(keys) |->
                IF Len(Members(k)) = 1
                THEN SectionAnalysis(keys[k], gesture_plan[keys[k]], d,
                                     midi_start_offset, beat_duration_s)
                ELSE CombinedAnalysis(Members(k), gesture_plan, d,
                                      midi_start_offset, beat_duration_s)]
    IN  IF \E k \in 1..Len(keys) :
              /\ Len(Members(k)) > 1
              /\ \E m \in 1..Len(Members(k)) :
                    Len(gesture_plan[Members(k)[m]].gesture) < 2
        THEN Raise
        ELSE Return([total_events |-> Len(d),
                     bpm |-> p.bpm,
                     sections |-> sections,
                     summary |-> Summary(sections)])

\* ------------------------------------------------------------------------
\* Whole runs of the four scripts
\* ------------------------------------------------------------------------
envVars == <<script, files, opts>>
dataVars == <<mid, idx, theremin_deviations, keyboard_deviations,
              theremin_metrics, keyboard_metrics>>

\* a run of one script on some files with some options
InitScript ==
    /\ pc = "start"
    /\ mid = <<>>
    /\ InitRun
    /\ InitFn
    /\ script \in Scripts
    /\ files \in FileChoices(script)
    /\ opts \in [graph : FlagChoices(script), report : FlagChoices(script),
                 format : FormatChoices(script)]
    /\ disk = NothingOnDisk
    /\ printed = {}
    /\ failed = {}
    /\ formats_to_save = <<>>
    /\ InitOut
    /\ trace \in IF script = "trace" THEN RunTraces ELSE {<<>>}
    /\ plan = NoPlan
    /\ df = <<>>

\* a step that only moves the run on to position p
Goto(p) ==
    /\ pc' = p
    /\ UNCHANGED <<disk, printed, failed, formats_to_save, raised>>

\* a step that prints a message of kind m and moves on to position p
Say(m, p) ==
    /\ pc' = p
    /\ printed' = printed \cup {m}
    /\ UNCHANGED <<disk, failed, formats_to_save, raised>>

\* an exception that nothing catches ends the run with a traceback
Propagate ==
    /\ pc' = "exit"
    /\ raised' = TRUE
    /\ UNCHANGED <<disk, printed, failed, formats_to_save>>

\* one iteration of `for fmt in formats_to_save`: savefig inside try/except;
\* p is the position after the loop
SaveChart(p) ==
    /\ formats_to_save # <<>>
    /\ \E ok \in BOOLEAN :
          IF ok
          THEN /\ disk' = [disk EXCEPT ![Head(formats_to_save)] = "complete"]
               /\ printed' = printed \cup {"chart_saved"}
               /\ UNCHANGED failed
          ELSE /\ failed' = failed \cup {Head(formats_to_save)}
               /\ printed' = printed \cup {"chart_error"}
               /\ UNCHANGED disk
    /\ formats_to_save' = Tail(formats_to_save)
    /\ pc' = IF Tail(formats_to_save) = <<>> THEN p ELSE pc
    /\ UNCHANGED raised

\* open(output_path, 'w') has created the empty report file
ReportOpened(p) ==
    /\ disk' = [disk EXCEPT !["report"] = "partial"]
    /\ pc' = p
    /\ UNCHANGED <<printed, failed, formats_to_save, raised>>

\* f.write(report_content) and the end of the with block
ReportWritten(p) ==
    /\ disk' = [disk EXCEPT !["report"] = "complete"]
    /\ printed' = printed \cup {"report_saved"}
    /\ pc' = p
    /\ UNCHANGED <<failed, formats_to_save, raised>>

\* the report could not be written; the handler prints and goes on to p
ReportFailed(p) ==
    /\ failed' = failed \cup {"report"}
    /\ printed' = printed \cup {"report_error"}
    /\ pc' = p
    /\ UNCHANGED <<disk, formats_to_save, raised>>

\* ---- gesture_sync_analyzer.py: analyze_synchronization ----

\* a < b for two standard deviations
SqrtLess(a, b) == RLess(a.radicand, b.radicand)

\* abs(a - b) < c for two standard deviations a, b and an integer c > 0:
\* with hi >= lo the radicands, sqrt(hi) - sqrt(lo) < c exactly when
\* hi - lo - c*c < 2*c*sqrt(lo)
SqrtDiffLess(a, b, c) ==
    LET hi == IF SqrtLess(a, b) THEN b.radicand ELSE a.radicand
        lo == IF SqrtLess(a, b) THEN a.radicand ELSE b.radicand
        d == RSub(RSub(hi, lo), FromInt(c * c))
    IN  \/ RLess(d, Zero)
        \/ RLess(RMul(d, d), RMul(FromInt(4 * c * c), lo))

\* the comparison made when either role has deviations
HasComparison_either(t, k) == Len(t) > 0 \/ Len(k) > 0

\* if len(theremin_deviations) > 0 and len(keyboard_deviations) > 0
HasComparison(t, k) == Len(t) > 0 /\ Len(k) > 0

\* the text of the fourth panel of generate_sync_graph: which blocks it
\* holds and which instrument each comparison line names
StatsText(t, k) ==
    LET tm == calculate_precision_metrics(t)
        km == calculate_precision_metrics(k)
        theremin_offset == RAbs(tm.offset_sistematico)
        keyboard_offset == RAbs(km.offset_sistematico)
    IN  [theremin |-> Len(t) > 0,
         keyboard |-> Len(k) > 0,
         comparison |-> HasComparison(t, k),
         better_instrument |->
            IF ~HasComparison(t, k) THEN ""
            ELSE IF SqrtLess(tm.precisao_real, km.precisao_real)
                 THEN "Theremin" ELSE "Teclado",
         offset_menor |->
            IF ~HasComparison(t, k) THEN ""
            ELSE IF RLess(keyboard_offset, theremin_offset)
                 THEN "Teclado" ELSE "Theremin"]

\* the recommendations of generate_sync_report for the gesture interface
Recommendations(t) ==
    IF Len(t) = 0 THEN {}
    ELSE LET avg_delay == NpMean(ToRats(t))
         IN  (IF RLess(FromInt(20), RAbs(avg_delay))
              THEN IF RLess(Zero, avg_delay) THEN {"otimizar_latencia"}
                   ELSE {"calibrar_antecipacao"}
              ELSE {})
             \cup (IF RLess(FromInt(900), NpStd(ToRats(t)).radicand)
                   THEN {"melhorar_consistencia"} ELSE {})
             \cup (IF Len(t) < 10 THEN {"aumentar_amostra"} ELSE {})

\* report_content of generate_sync_report: the section written for each
\* role, whether the comparative section is there, the instruments and the
\* branches it names, and the final conclusion
ReportContent(t, k) ==
    LET tm == calculate_precision_metrics(t)
        km == calculate_precision_metrics(k)
        theremin_precision == tm.precisao_real
        keyboard_precision == km.precisao_real
        theremin_offset == RAbs(tm.offset_sistematico)
        keyboard_offset == RAbs(km.offset_sistematico)
        offset_diff == RAbs(RSub(theremin_offset, keyboard_offset))
        both == HasComparison(t, k)
        precise == SqrtLess(theremin_precision, keyboard_precision)
        smaller == RLess(theremin_offset, keyboard_offset)
    IN  [theremin_section |-> IF Len(t) > 0 THEN "metrics" ELSE "no_events",
         keyboard_section |-> IF Len(k) > 0 THEN "metrics" ELSE "no_events",
         comparative |-> both,
         better_precision |->
            IF ~both THEN ""
            ELSE IF precise THEN "Web Theremin" ELSE "Teclado MIDI",
         better_offset |->
            IF ~both THEN ""
            ELSE IF smaller THEN "Web Theremin" ELSE "Teclado MIDI",
         precision_analysis |->
            IF ~both THEN ""
            ELSE IF precise THEN "theremin_better"
            ELSE IF SqrtDiffLess(theremin_precision, keyboard_precision, 20)
                 THEN "similar"
            ELSE "keyboard_better",
         offset_analysis |->
            IF ~both THEN ""
            ELSE IF RLess(offset_diff, FromInt(20)) THEN "similar"
            ELSE IF RLess(keyboard_offset, theremin_offset)
                 THEN "theremin_larger"
            ELSE "theremin_smaller",
         comparison_conclusion |->
            IF ~both THEN ""
            ELSE IF precise /\ smaller THEN "superior_both"
            ELSE IF precise THEN "superior_precision"
            ELSE IF smaller THEN "better_timing"
            ELSE "keyboard_superior",
         recommendations |-> Recommendations(t),
         conclusion |->
            IF both
            THEN IF precise THEN "superior" ELSE "promising"
            ELSE "limited"]

\* the test of the input path that creates the output directory first
SyncStart_makedirs_first ==
    /\ script = "sync"
    /\ pc = "start"
    /\ IF files.main = "missing"
       THEN /\ pc' = "exit"
            /\ printed' = printed \cup {"not_found"}
            /\ disk' = MakeDirs(disk)
            /\ UNCHANGED <<failed, formats_to_save, raised>>
       ELSE Goto("sync_makedirs")
    /\ UNCHANGED <<envVars, outVars, dataVars, scanVars, fnVars>>

\* if not os.path.exists(midi_path): print, return
SyncStart ==
    /\ script = "sync"
    /\ pc = "start"
    /\ IF files.main = "missing"
       THEN Say("not_found", "exit")
       ELSE Goto("sync_makedirs")
    /\ UNCHANGED <<envVars, outVars, dataVars, scanVars, fnVars>>

\* if generate_graph or generate_report: os.makedirs(output_dir, ...)
SyncMakeDirs ==
    /\ script = "sync"
    /\ pc = "sync_makedirs"
    /\ disk' = IF opts.graph \/ opts.report THEN MakeDirs(disk) ELSE disk
    /\ pc' = "sync_parse"
    /\ UNCHANGED <<printed, failed, formats_to_save, raised>>
    /\ UNCHANGED <<envVars, outVars, dataVars, scanVars, fnVars>>

\* mid = mido.MidiFile(midi_path) inside try / except Exception
SyncParse ==
    /\ script = "sync"
    /\ pc = "sync_parse"
    /\ IF files.main = "malformed"
       THEN Say("read_error", "exit") /\ UNCHANGED mid
       ELSE Goto("scan") /\ mid' \in RunStreams
    /\ UNCHANGED <<idx, theremin_deviations, keyboard_deviations,
                   theremin_metrics, keyboard_metrics>>
    /\ UNCHANGED <<envVars, outVars, scanVars, fnVars>>

\* if generate_graph: generate_sync_graph up to the saving loop, inside
\* try / except Exception; the drawing may fail as a whole
SyncGraph ==
    /\ script = "sync"
    /\ pc = "metrics"
    /\ \/ /\ ~opts.graph
          /\ Goto("sync_report")
          /\ UNCHANGED <<theremin_metrics, keyboard_metrics, stats_text>>
       \/ /\ opts.graph
          /\ failed' = failed \cup {"graph"}
          /\ printed' = printed \cup {"graph_error"}
          /\ pc' = "sync_report"
          /\ UNCHANGED <<disk, formats_to_save, raised>>
          /\ UNCHANGED <<theremin_metrics, keyboard_metrics, stats_text>>
       \/ /\ opts.graph
          /\ theremin_metrics' = calculate_precision_metrics(theremin_deviations)
          /\ keyboard_metrics' = calculate_precision_metrics(keyboard_deviations)
          /\ stats_text' = Some(StatsText(theremin_deviations,
                                          keyboard_deviations))
          /\ formats_to_save' = FormatsToSave(opts.format)
          /\ pc' = "sync_save"
          /\ UNCHANGED <<disk, printed, failed, raised>>
    /\ UNCHANGED <<mid, idx, theremin_deviations, keyboard_deviations>>
    /\ UNCHANGED <<envVars, report_content, rows, traceVars, gestureVars>>
    /\ UNCHANGED <<scanVars, fnVars>>

\* the saving loop of generate_sync_graph
SyncSave ==
    /\ script = "sync"
    /\ pc = "sync_save"
    /\ SaveChart("sync_report")
    /\ UNCHANGED <<envVars, outVars, dataVars, scanVars, fnVars>>

\* if generate_report: generate_sync_report inside try / except Exception,
\* up to the open of the report file
SyncReport ==
    /\ script = "sync"
    /\ pc = "sync_report"
    /\ \/ ~opts.report /\ Goto("sync_final") /\ UNCHANGED report_content
       \/ opts.report /\ ReportFailed("sync_final") /\ UNCHANGED report_content
       \/ /\ opts.report
          /\ report_content' = Some(ReportContent(theremin_deviations,
                                                  keyboard_deviations))
          /\ ReportOpened("sync_report_write")
    /\ UNCHANGED <<envVars, stats_text, rows, traceVars, gestureVars>>
    /\ UNCHANGED <<dataVars, scanVars, fnVars>>

\* f.write(report_content), which may fail and is then caught
SyncReportWrite ==
    /\ script = "sync"
    /\ pc = "sync_report_write"
    /\ \/ ReportWritten("sync_final")
       \/ ReportFailed("sync_final")
    /\ UNCHANGED <<envVars, outVars, dataVars, scanVars, fnVars>>

\* the final summary line
SyncFinal ==
    /\ script = "sync"
    /\ pc = "sync_final"
    /\ IF opts.graph \/ opts.report
       THEN Say("complete", "exit")
       ELSE Goto("exit")
    /\ UNCHANGED <<envVars, outVars, dataVars, scanVars, fnVars>>

\* the deviation arrays handed to the graph and to the report, in
\* milliseconds
ReportDevSeqs == SeqsUpTo({20 * d : d \in (-MaxReportDev)..MaxReportDev},
                          MaxReportDevs)

\* analyze_synchronization with the default options, once the deviations of
\* the two roles are known
InitReport ==
    /\ pc = "metrics"
    /\ mid = <<>>
    /\ absolute_time = 0
    /\ idx = 0
    /\ metronome_times = <<>>
    /\ theremin_times = <<>>
    /\ keyboard_times = <<>>
    /\ theremin_metrics = NoMetrics
    /\ keyboard_metrics = NoMetrics
    /\ raised = FALSE
    /\ InitFn
    /\ InitSyncDefaults
    /\ theremin_deviations \in ReportDevSeqs
    /\ keyboard_deviations \in ReportDevSeqs

NextReport ==
    \/ SyncGraph \/ SyncSave \/ SyncReport \/ SyncReportWrite \/ SyncFinal

SpecReport == InitReport /\ [][NextReport]_vars

\* ---- midi_to_csv_converter.py: convert_midi_to_csv ----

\* round(absolute_time, 6) for a time in thirds of a microsecond: the
\* nearest whole number of microseconds, still in thirds of a microsecond
Round6(t) == IF t % 3 = 2 THEN t + 1 ELSE t - (t % 3)

\* a row that fills note and velocity for note_on only
Row_note_on_only(t, msg) ==
    [timestamp_s |-> Round6(t),
     type |-> msg.type,
     channel |-> IF "channel" \in DOMAIN msg THEN Some(msg.channel) ELSE None,
     note |-> IF msg.type = "note_on" THEN Some(msg.note) ELSE None,
     velocity |-> IF msg.type = "note_on" THEN Some(msg.velocity) ELSE None,
     control |-> IF msg.type = "control_change" THEN Some(msg.control) ELSE None,
     value |-> IF msg.type = "control_change" THEN Some(msg.value) ELSE None,
     program |-> IF msg.type = "program_change" THEN Some(msg.program) ELSE None]

\* the row written for msg when the accumulator is t; None is a blank cell
Row(t, msg) ==
    [timestamp_s |-> Round6(t),
     type |-> msg.type,
     channel |-> IF "channel" \in DOMAIN msg THEN Some(msg.channel) ELSE None,
     note |-> IF msg.type \in {"note_on", "note_off"}
              THEN Some(msg.note) ELSE None,
     velocity |-> IF msg.type \in {"note_on", "note_off"}
                  THEN Some(msg.velocity) ELSE None,
     control |-> IF msg.type = "control_change" THEN Some(msg.control) ELSE None,
     value |-> IF msg.type = "control_change" THEN Some(msg.value) ELSE None,
     program |-> IF msg.type = "program_change" THEN Some(msg.program) ELSE None]

\* the messages of a MIDI file given to the converter, deltas in thirds of
\* a microsecond
CsvMessages ==
    [type : {"note_on", "note_off"}, time : 0..2, channel : {1}, note : {60},
     velocity : {64}]
    \cup [type : {"control_change"}, time : 0..2, channel : {1},
          control : {7}, value : {100}]
    \cup [type : {"program_change"}, time : 0..2, channel : {1}, program : {5}]
    \cup [type : {"pitchwheel"}, time : 0..2, channel : {1}, pitch : {0}]
    \cup [type : {"set_tempo"}, time : 0..2, tempo : {500000}]
CsvStreams == SeqsUpTo(CsvMessages, MaxCsvMsgs)

CsvStart ==
    /\ script = "csv"
    /\ pc = "start"
    /\ IF files.main = "missing"
       THEN Say("not_found", "exit")
       ELSE Goto("csv_parse")
    /\ UNCHANGED <<envVars, outVars, dataVars, scanVars, fnVars>>

CsvParse ==
    /\ script = "csv"
    /\ pc = "csv_parse"
    /\ IF files.main = "malformed"
       THEN Say("read_error", "exit") /\ UNCHANGED mid
       ELSE Goto("csv_open") /\ mid' \in RunStreams
    /\ UNCHANGED <<idx, theremin_deviations, keyboard_deviations,
                   theremin_metrics, keyboard_metrics>>
    /\ UNCHANGED <<envVars, outVars, scanVars, fnVars>>

\* with open(output_path, 'w') ...: writer.writeheader(); nothing catches a
\* failure of open
CsvOpen ==
    /\ script = "csv"
    /\ pc = "csv_open"
    /\ \/ Propagate
       \/ /\ disk' = [disk EXCEPT !["csv"] = "partial"]
          /\ pc' = "csv_rows"
          /\ UNCHANGED <<printed, failed, formats_to_save, raised>>
    /\ UNCHANGED <<envVars, outVars, dataVars, scanVars, fnVars>>

\* one iteration of `for msg in mid`: one writer.writerow(row)
CsvRow ==
    /\ script = "csv"
    /\ pc = "csv_rows"
    /\ idx < Len(mid)
    /\ absolute_time' = Accumulate(absolute_time, mid[idx + 1])
    /\ rows' = Append(rows, Row(absolute_time', mid[idx + 1]))
    /\ idx' = idx + 1
    /\ UNCHANGED <<pc, disk, printed, failed, formats_to_save, raised>>
    /\ UNCHANGED <<mid, theremin_deviations, keyboard_deviations,
                   theremin_metrics, keyboard_metrics>>
    /\ UNCHANGED <<metronome_times, theremin_times, keyboard_times>>
    /\ UNCHANGED <<envVars, textVars, traceVars, gestureVars, fnVars>>

\* the end of the with block closes the file; the success message
CsvClose ==
    /\ script = "csv"
    /\ pc = "csv_rows"
    /\ idx = Len(mid)
    /\ disk' = [disk EXCEPT !["csv"] = "complete"]
    /\ printed' = printed \cup {"converted"}
    /\ pc' = "exit"
    /\ UNCHANGED <<failed, formats_to_save, raised>>
    /\ UNCHANGED <<envVars, outVars, dataVars, scanVars, fnVars>>

\* convert_midi_to_csv on a MIDI file that mido has parsed
InitCsv ==
    /\ pc = "csv_open"
    /\ mid \in CsvStreams
    /\ InitRun
    /\ InitFn
    /\ script = "csv"
    /\ files = [main |-> "ok", plan |-> "ok", dir |-> TRUE]
    /\ opts = [graph |-> FALSE, report |-> FALSE, format |-> "png"]
    /\ disk = NothingOnDisk
    /\ printed = {}
    /\ failed = {}
    /\ formats_to_save = <<>>
    /\ InitOut
    /\ InitNoInputs

NextCsv == CsvOpen \/ CsvRow \/ CsvClose

SpecCsv == InitCsv /\ [][NextCsv]_vars

\* ---- analyze-trace.py: main ----

TraceStart ==
    /\ script = "trace"
    /\ pc = "start"
    /\ IF files.main = "missing"
       THEN Say("not_found", "exit")
       ELSE Goto("trace_load")
    /\ UNCHANGED <<envVars, outVars, dataVars, scanVars, fnVars>>

\* results = analyze_trace(...): json.load inside try / except Exception;
\* if results is None: return 1
TraceLoad ==
    /\ script = "trace"
    /\ pc = "trace_load"
    /\ IF files.main = "malformed"
       THEN Say("read_error", "exit") /\ UNCHANGED results
       ELSE LET out == analyze_trace(trace)
            IN  IF out.raised THEN Propagate /\ UNCHANGED results
                ELSE /\ results' = out.value
                     /\ IF out.value = None
                        THEN Say("insufficient", "exit")
                        ELSE Goto("trace_makedirs")
    /\ UNCHANGED <<envVars, textVars, rows, trace, gestureVars>>
    /\ UNCHANGED <<dataVars, scanVars, fnVars>>

\* main on a trace file that exists and holds a JSON object
InitTrace ==
    /\ pc = "trace_load"
    /\ mid = <<>>
    /\ InitRun
    /\ InitFn
    /\ script = "trace"
    /\ files = [main |-> "ok", plan |-> "ok", dir |-> FALSE]
    /\ opts = [graph |-> TRUE, report |-> TRUE, format |-> "png"]
    /\ disk = NothingOnDisk
    /\ printed = {}
    /\ failed = {}
    /\ formats_to_save = <<>>
    /\ InitOut
    /\ trace \in Traces
    /\ plan = NoPlan
    /\ df = <<>>

\* os.makedirs(output_dir, exist_ok=True)
TraceMakeDirs ==
    /\ script = "trace"
    /\ pc = "trace_makedirs"
    /\ disk' = MakeDirs(disk)
    /\ pc' = "trace_plots"
    /\ UNCHANGED <<printed, failed, formats_to_save, raised>>
    /\ UNCHANGED <<envVars, outVars, dataVars, scanVars, fnVars>>

NextTrace == TraceLoad \/ TraceMakeDirs

SpecTrace == InitTrace /\ [][NextTrace]_vars

\* if not args.no_plot: generate_plots up to the saving loop, inside
\* try / except Exception whose handler returns 1
TracePlots ==
    /\ script = "trace"
    /\ pc = "trace_plots"
    /\ \/ ~opts.graph /\ Goto("trace_report")
       \/ /\ opts.graph
          /\ failed' = failed \cup {"graph"}
          /\ printed' = printed \cup {"graph_error"}
          /\ pc' = "exit"
          /\ UNCHANGED <<disk, formats_to_save, raised>>
       \/ /\ opts.graph
          /\ formats_to_save' = FormatsToSave(opts.format)
          /\ pc' = "trace_save"
          /\ UNCHANGED <<disk, printed, failed, raised>>
    /\ UNCHANGED <<envVars, outVars, dataVars, scanVars, fnVars>>

\* the saving loop of generate_plots
TraceSave ==
    /\ script = "trace"
    /\ pc = "trace_save"
    /\ SaveChart("trace_report")
    /\ UNCHANGED <<envVars, outVars, dataVars, scanVars, fnVars>>

\* if generate_report_flag: generate_report inside try / except Exception
\* whose handler returns 1, up to the open of the report file
TraceReport ==
    /\ script = "trace"
    /\ pc = "trace_report"
    /\ \/ ~opts.report /\ Goto("trace_final")
       \/ opts.report /\ ReportFailed("exit")
       \/ opts.report /\ ReportOpened("trace_report_write")
    /\ UNCHANGED <<envVars, outVars, dataVars, scanVars, fnVars>>

TraceReportWrite ==
    /\ script = "trace"
    /\ pc = "trace_report_write"
    /\ \/ ReportWritten("trace_final")
       \/ ReportFailed("exit")
    /\ UNCHANGED <<envVars, outVars, dataVars, scanVars, fnVars>>

TraceFinal ==
    /\ script = "trace"
    /\ pc = "trace_final"
    /\ IF opts.graph \/ opts.report
       THEN Say("complete", "exit")
       ELSE Goto("exit")
    /\ UNCHANGED <<envVars, outVars, dataVars, scanVars, fnVars>>

\* ---- plot_midi_timeline.py: main ----

\* pd.read_csv(csv_file) and json.load of the plan inside
\* try / except FileNotFoundError: "missing" is caught, "malformed" is not
ReadCsvAndPlan ==
    IF files.main = "missing" THEN "missing"
    ELSE IF files.main = "malformed" THEN "malformed"
    ELSE files.plan

\* if generate_plots: plot_midi_timeline_per_section up to the saving loop
\* of a section; main has no try around the call
TimelinePlots ==
    /\ script = "timeline"
    /\ pc = "start"
    /\ \/ ~opts.graph /\ Goto("timeline_analyze")
       \/ /\ opts.graph
          /\ ReadCsvAndPlan = "missing"
          /\ Say("not_found", "timeline_analyze")
       \/ /\ opts.graph
          /\ ReadCsvAndPlan = "malformed"
          /\ Propagate
       \/ /\ opts.graph
          /\ ReadCsvAndPlan = "ok"
          /\ disk' = MakeDirs(disk)
          /\ \/ /\ formats_to_save' = TimelineFormatsToSave(opts.format)
                /\ pc' = "timeline_save"
                /\ UNCHANGED <<printed, failed, raised>>
             \/ /\ failed' = failed \cup {"graph"}
                /\ raised' = TRUE
                /\ pc' = "exit"
                /\ UNCHANGED <<printed, formats_to_save>>
    /\ UNCHANGED <<envVars, outVars, dataVars, scanVars, fnVars>>

\* the saving loop of a section plot
TimelineSave ==
    /\ script = "timeline"
    /\ pc = "timeline_save"
    /\ SaveChart("timeline_analyze")
    /\ UNCHANGED <<envVars, outVars, dataVars, scanVars, fnVars>>

\* if generate_report: analyze_gesture_detection, which returns {} when a
\* file is missing; then os.makedirs(args.output, exist_ok=True)
TimelineAnalyze ==
    /\ script = "timeline"
    /\ pc = "timeline_analyze"
    /\ \/ ~opts.report /\ Goto("timeline_final") /\ UNCHANGED analysis_results
       \/ /\ opts.report
          /\ ReadCsvAndPlan = "missing"
          /\ printed' = printed \cup {"not_found", "analysis_failed"}
          /\ pc' = "timeline_final"
          /\ UNCHANGED <<disk, failed, formats_to_save, raised>>
          /\ UNCHANGED analysis_results
       \/ /\ opts.report
          /\ ReadCsvAndPlan = "malformed"
          /\ Propagate
          /\ UNCHANGED analysis_results
       \/ /\ opts.report
          /\ ReadCsvAndPlan = "ok"
          /\ LET out == analyze_gesture_detection(df, plan)
             IN  IF out.raised
                 THEN Propagate /\ UNCHANGED analysis_results
                 ELSE /\ analysis_results' = Some(out.value)
                      /\ disk' = MakeDirs(disk)
                      /\ pc' = "timeline_report"
                      /\ UNCHANGED <<printed, failed, formats_to_save, raised>>
    /\ UNCHANGED <<envVars, textVars, rows, traceVars, plan, df>>
    /\ UNCHANGED <<dataVars, scanVars, fnVars>>

\* main with --no-plots on a CSV file and a plan that exist and parse
InitGesture ==
    /\ pc = "timeline_analyze"
    /\ mid = <<>>
    /\ InitRun
    /\ InitFn
    /\ script = "timeline"
    /\ files = [main |-> "ok", plan |-> "ok", dir |-> FALSE]
    /\ opts = [graph |-> FALSE, report |-> TRUE, format |-> "png"]
    /\ disk = NothingOnDisk
    /\ printed = {}
    /\ failed = {}
    /\ formats_to_save = <<>>
    /\ InitOut
    /\ trace = <<>>
    /\ plan \in Plans
    /\ df \in DataFrames

NextGesture == TimelineAnalyze

SpecGesture == InitGesture /\ [][NextGesture]_vars

\* generate_detection_report: open of the report file; nothing catches a
\* failure
TimelineReport ==
    /\ script = "timeline"
    /\ pc = "timeline_report"
    /\ \/ /\ failed' = failed \cup {"report"}
          /\ raised' = TRUE
          /\ pc' = "exit"
          /\ UNCHANGED <<disk, printed, formats_to_save>>
       \/ ReportOpened("timeline_report_write")
    /\ UNCHANGED <<envVars, outVars, dataVars, scanVars, fnVars>>

TimelineReportWrite ==
    /\ script = "timeline"
    /\ pc = "timeline_report_write"
    /\ \/ ReportWritten("timeline_final")
       \/ /\ failed' = failed \cup {"report"}
          /\ raised' = TRUE
          /\ pc' = "exit"
          /\ UNCHANGED <<disk, printed, formats_to_save>>
    /\ UNCHANGED <<envVars, outVars, dataVars, scanVars, fnVars>>

\* the last lines of main
TimelineFinal ==
    /\ script = "timeline"
    /\ pc = "timeline_final"
    /\ IF opts.graph \/ opts.report
       THEN Say("complete", "exit")
       ELSE Say("no_outputs", "exit")
    /\ UNCHANGED <<envVars, outVars, dataVars, scanVars, fnVars>>

\* ---- the user ----

\* the user interrupts the process, at any point of the run
Interrupt ==
    /\ pc \notin {"exit", "interrupted"}
    /\ pc' = "interrupted"
    /\ UNCHANGED <<disk, printed, failed, formats_to_save, raised>>
    /\ UNCHANGED <<envVars, outVars, dataVars, scanVars, fnVars>>

NextScript ==
    \/ SyncStart \/ SyncMakeDirs \/ SyncParse \/ ScanMsg \/ Deviations
    \/ SyncGraph \/ SyncSave \/ SyncReport \/ SyncReportWrite \/ SyncFinal
    \/ CsvStart \/ CsvParse \/ CsvOpen \/ CsvRow \/ CsvClose
    \/ TraceStart \/ TraceLoad \/ TraceMakeDirs \/ TracePlots \/ TraceSave
    \/ TraceReport \/ TraceReportWrite \/ TraceFinal
    \/ TimelinePlots \/ TimelineSave \/ TimelineAnalyze \/ TimelineReport
    \/ TimelineReportWrite \/ TimelineFinal
    \/ Interrupt

SpecScript == InitScript /\ [][NextScript]_vars

\* ------------------------------------------------------------------------
\* Properties of calculate_deviations (specification SpecCall)
\* ------------------------------------------------------------------------
Returned == pc \in {"returned", "call_done"}

\* reference index j is at minimal distance from onset t
Nearest(t, j) ==
    \A j2 \in 1..Len(reference_times) :
        Abs(reference_times[j] - t) <= Abs(reference_times[j2] - t)

\* C1: for non-empty source and reference sequences, every source onset t
\* gets the value (t - r) * 1000 for a reference onset r at minimal distance
\* from t over the whole reference sequence; the value is positive when t is
\* after r and negative when t is before r.
C1_NearestReference ==
    (Returned /\ note_times # <<>> /\ reference_times # <<>>) =>
        /\ Len(deviations) = Len(note_times)
        /\ \A i \in 1..Len(note_times) :
              \E j \in 1..Len(reference_times) :
                  /\ Nearest(note_times[i], j)
                  /\ deviations[i] = (note_times[i] - reference_times[j]) * 1000
                  /\ (note_times[i] > reference_times[j] => deviations[i] > 0)
                  /\ (note_times[i] < reference_times[j] => deviations[i] < 0)

\* a late and an early onset, the nearest reference of the first onset not
\* being the one that follows it
C1_Witness ==
    /\ pc = "returned"
    /\ reference_times = <<0, 3>>
    /\ note_times = <<1, 2>>
    /\ deviations = <<1000, -1000>>

\* C2: an onset at the same minimal distance from several reference onsets
\* is measured against the one with the lowest index.
C2_TieLowestIndex ==
    (Returned /\ note_times # <<>> /\ reference_times # <<>>) =>
        \A i \in 1..Len(note_times) :
            \A j \in 1..Len(reference_times) :
                (/\ Nearest(note_times[i], j)
                 /\ \A j2 \in 1..(j - 1) : ~Nearest(note_times[i], j2))
                => deviations[i] = (note_times[i] - reference_times[j]) * 1000

C2_Witness ==
    /\ pc = "returned"
    /\ reference_times = <<1, 3>>
    /\ note_times = <<2>>
    /\ deviations = <<1000>>

\* C3 as stated: for every source and every reference sequence the result
\* has as many elements as the source.
C3_Original ==
    Returned => Len(deviations) = Len(note_times)

\* C3 amended: for every source sequence and every non-empty reference
\* sequence the result has as many elements as the source sequence.
C3_OneDeviationPerOnset ==
    (Returned /\ reference_times # <<>>) => Len(deviations) = Len(note_times)

C3_Witness ==
    /\ pc = "returned"
    /\ Len(reference_times) = 1
    /\ Len(note_times) = 2
    /\ Len(deviations) = 2

\* C4: when the source or the reference sequence is empty, the call returns
\* the empty sequence and raises nothing.
C4_EmptyInput ==
    (pc # "call" /\ (note_times = <<>> \/ reference_times = <<>>)) =>
        /\ Returned
        /\ ~raised
        /\ deviations = <<>>

C4_Witness ==
    /\ pc = "returned"
    /\ note_times # <<>>
    /\ reference_times = <<>>
    /\ deviations = <<>>

\* C5: no step changes the two input sequences, and when the call returns
\* the i-th element of the result is the deviation of the i-th source onset.
C5_InputsKeptOrderKept ==
    [][/\ note_times' = note_times
       /\ reference_times' = reference_times
       /\ (pc = "call" /\ pc' = "returned") =>
             \A i \in 1..Len(deviations') :
                 /\ i <= Len(note_times)
                 /\ \E j \in 1..Len(reference_times) :
                       /\ Nearest(note_times[i], j)
                       /\ deviations'[i] =
                             (note_times[i] - reference_times[j]) * 1000]_vars

\* an unsorted source sequence, measured in its own order
C5_Witness ==
    /\ pc = "returned"
    /\ note_times = <<3, 0>>
    /\ reference_times = <<1>>
    /\ deviations = <<2000, -1000>>

\* C10: for an empty deviation set calculate_precision_metrics returns
\* offset, real precision, corrected precision and mean absolute deviation 0
\* and count 0, and raises nothing.
C10_EmptyMetrics ==
    (pc = "call_done" /\ deviations = <<>>) =>
        /\ metrics.offset_sistematico = Zero
        /\ metrics.precisao_real = Sqrt(Zero)
        /\ metrics.precisao_corrigida = Sqrt(Zero)
        /\ metrics.desvio_absoluto_medio = Zero
        /\ metrics.eventos_analisados = 0
        /\ ~raised

C10_Witness ==
    /\ pc = "call_done"
    /\ deviations = <<>>
    /\ note_times # <<>>
    /\ metrics.eventos_analisados = 0

\* ------------------------------------------------------------------------
\* Properties of the extractor loop (specification Spec)
\* ------------------------------------------------------------------------
RECURSIVE PrefixTime(_)
\* sum of the deltas of the first n messages
PrefixTime(n) == IF n = 0 THEN 0 ELSE PrefixTime(n - 1) + mid[n].time

\* indices of the scanned note-on messages with velocity > 0 and this note
OnsetIdx(note) ==
    {j \in 1..idx : /\ mid[j].type = "note_on"
                    /\ mid[j].velocity > 0
                    /\ mid[j].note = note}

\* the k-th smallest element of the set S of indices
Kth(S, k) == CHOOSE j \in S : Cardinality({j2 \in S : j2 <= j}) = k

TimesOf(times, note) ==
    /\ Len(times) <= Cardinality(OnsetIdx(note))
    /\ \A k \in 1..Len(times) : times[k] = PrefixTime(Kth(OnsetIdx(note), k))

\* C6: the accumulator is the sum of the deltas of all messages scanned so
\* far, whatever their type, and the time recorded for an onset is the sum of
\* the deltas of all messages up to and including its own message.
C6_AccumulatedTime ==
    /\ absolute_time = PrefixTime(idx)
    /\ TimesOf(metronome_times, METRONOME_NOTE)
    /\ TimesOf(theremin_times, THEREMIN_NOTE)
    /\ TimesOf(keyboard_times, KEYBOARD_NOTE)

\* the deltas of a control_change and of a note_off count for a later onset
C6_Witness ==
    /\ idx = 3
    /\ mid[1].type = "control_change" /\ mid[1].time = 1
    /\ mid[2].type = "note_off" /\ mid[2].time = 1
    /\ mid[3].type = "note_on" /\ mid[3].time = 1
    /\ metronome_times = <<3>>

\* C7: a step appends to one of the three onset sequences only when the
\* message it scans is a note-on with velocity > 0; a note-on with velocity 0
\* leaves the three sequences as they are, whatever its note.
C7_VelocityZeroExcluded ==
    [][(\/ metronome_times' # metronome_times
        \/ theremin_times' # theremin_times
        \/ keyboard_times' # keyboard_times)
       => (/\ pc = "scan"
           /\ idx < Len(mid)
           /\ mid[idx + 1].type = "note_on"
           /\ mid[idx + 1].velocity > 0)]_vars

\* a velocity-0 note-on on the metronome note was scanned, nothing recorded
C7_Witness ==
    /\ idx = 1
    /\ mid[1].type = "note_on"
    /\ mid[1].velocity = 0
    /\ mid[1].note = METRONOME_NOTE
    /\ metronome_times = <<>>
    /\ theremin_times = <<>>
    /\ keyboard_times = <<>>

\* scanned messages that qualify (note-on, velocity > 0) with a note in S
Qualifying(S) ==
    {j \in 1..idx : /\ mid[j].type = "note_on"
                    /\ mid[j].velocity > 0
                    /\ mid[j].note \in S}

\* C8: qualifying messages with note 24 go to the metronome sequence, with
\* note 60 to the theremin sequence, with note 48 to the keyboard sequence
\* and with any other note to none; the number of recorded onsets is the
\* number of qualifying messages whose note is 24, 60 or 48.
C8_RoutedByNote ==
    /\ Len(metronome_times) = Cardinality(Qualifying({24}))
    /\ Len(theremin_times) = Cardinality(Qualifying({60}))
    /\ Len(keyboard_times) = Cardinality(Qualifying({48}))
    /\ Len(metronome_times) + Len(theremin_times) + Len(keyboard_times)
          = Cardinality(Qualifying({24, 60, 48}))

\* three qualifying messages, one of them on a note that has no role
C8_Witness ==
    /\ idx = 3
    /\ Cardinality(Qualifying(Notes)) = 3
    /\ Cardinality(Qualifying({24, 60, 48})) = 2
    /\ Len(metronome_times) = 1
    /\ Len(keyboard_times) = 1
    /\ theremin_times = <<>>

NonDecreasing(times) ==
    \A k \in 1..(Len(times) - 1) : times[k] <= times[k + 1]

\* s is t or t with one element appended
GrowsAtEnd(s, t) ==
    /\ Len(s) <= Len(t)
    /\ Len(t) <= Len(s) + 1
    /\ \A k \in 1..Len(s) : t[k] = s[k]

\* C9: with non-negative deltas, every step keeps the elements already in
\* each onset sequence in place (a new onset goes to the end) and the times
\* of each sequence never decrease from one element to the next.
C9_EncounterOrder ==
    [][/\ GrowsAtEnd(metronome_times, metronome_times')
       /\ GrowsAtEnd(theremin_times, theremin_times')
       /\ GrowsAtEnd(keyboard_times, keyboard_times')
       /\ NonDecreasing(metronome_times')
       /\ NonDecreasing(theremin_times')
       /\ NonDecreasing(keyboard_times')]_vars

\* two onsets at the same time followed by a later one
C9_Witness ==
    /\ idx = 3
    /\ metronome_times = <<0, 0, 1>>

\* ------------------------------------------------------------------------
\* Properties of calculate_precision_metrics (specification SpecMetrics)
\* ------------------------------------------------------------------------
RECURSIVE IntSum(_)
IntSum(xs) == IF xs = <<>> THEN 0 ELSE xs[1] + IntSum(Tail(xs))

Squares(xs) == [i \in 1..Len(xs) |-> xs[i] * xs[i]]
AbsValues(xs) == [i \in 1..Len(xs) |-> Abs(xs[i])]

MetricsDone == pc = "metrics_done"

\* C11: for every deviation sequence the corrected precision equals the
\* real precision.
C11_CorrectedEqualsReal ==
    MetricsDone => metrics.precisao_corrigida = metrics.precisao_real

\* deviations with a non-zero mean and a non-zero spread
C11_Witness ==
    /\ MetricsDone
    /\ deviations = <<1, 3, -1>>
    /\ metrics.precisao_corrigida = Sqrt(Rat(8, 3))

\* C12: for a non-empty sequence of N deviations, offset * N is the sum of
\* the signed deviations and the count is N.
C12_OffsetIsMean ==
    (MetricsDone /\ deviations # <<>>) =>
        /\ RMul(metrics.offset_sistematico, FromInt(Len(deviations)))
              = FromInt(IntSum(deviations))
        /\ metrics.eventos_analisados = Len(deviations)

\* a negative mean that is not an integer
C12_Witness ==
    /\ MetricsDone
    /\ deviations = <<-3, 2>>
    /\ metrics.offset_sistematico = Rat(-1, 2)
    /\ metrics.eventos_analisados = 2

\* C13: for a non-empty sequence of N deviations the square of the real
\* precision is the sum of the squared differences from the mean divided by
\* N, that is (N * sum(d^2) - sum(d)^2) / N^2; a single deviation gives 0.
C13_PopulationStd ==
    (MetricsDone /\ deviations # <<>>) =>
        LET n == Len(deviations)
            sum == IntSum(deviations)
            sumsq == IntSum(Squares(deviations))
        IN  /\ metrics.precisao_real = Sqrt(Rat(n * sumsq - sum * sum, n * n))
            /\ (n = 1 => metrics.precisao_real = Sqrt(Zero))

\* two deviations: the population variance is 1, the sample variance is 2
C13_Witness ==
    /\ MetricsDone
    /\ deviations = <<1, 3>>
    /\ metrics.precisao_real = Sqrt(FromInt(1))

\* C14: for a non-empty sequence the mean absolute deviation is the sum of
\* the absolute values divided by N; it is not negative and not smaller than
\* the absolute value of the offset.
C14_MeanAbsoluteDeviation ==
    (MetricsDone /\ deviations # <<>>) =>
        /\ metrics.desvio_absoluto_medio
              = Rat(IntSum(AbsValues(deviations)), Len(deviations))
        /\ ~RLess(metrics.desvio_absoluto_medio, Zero)
        /\ ~RLess(metrics.desvio_absoluto_medio,
                  RAbs(metrics.offset_sistematico))

\* deviations of both signs: mean absolute deviation 2, offset -1
C14_Witness ==
    /\ MetricsDone
    /\ deviations = <<-3, 1>>
    /\ metrics.desvio_absoluto_medio = FromInt(2)

\* ------------------------------------------------------------------------
\* The end-to-end scenario (specification SpecScenario)
\* ------------------------------------------------------------------------
\* C15: reference onsets at 0, 50, 100, 150 and gesture onsets at 2, 51, 103
\* hundredths of a second give the deviations 20, 10, 30 ms in that order
\* (2000, 1000, 3000 in hundredths of a millisecond), offset 20 ms, mean
\* absolute deviation 20 ms, count 3, and real precision = corrected
\* precision = the root of 200/3 ms^2 (2000000/3 in the units of the model).
C15_EndToEnd ==
    (/\ pc = "done"
     /\ metronome_times = <<0, 50, 100, 150>>
     /\ theremin_times = <<2, 51, 103>>) =>
        /\ theremin_deviations = <<2000, 1000, 3000>>
        /\ theremin_metrics.offset_sistematico = FromInt(2000)
        /\ theremin_metrics.desvio_absoluto_medio = FromInt(2000)
        /\ theremin_metrics.eventos_analisados = 3
        /\ theremin_metrics.precisao_real = Sqrt(Rat(2000000, 3))
        /\ theremin_metrics.precisao_corrigida = Sqrt(Rat(2000000, 3))

C15_Witness ==
    /\ pc = "done"
    /\ mid = ScenarioStream(2, 1, 3)
    /\ metronome_times = <<0, 50, 100, 150>>
    /\ theremin_times = <<2, 51, 103>>
    /\ theremin_deviations = <<2000, 1000, 3000>>


\* ------------------------------------------------------------------------
\* Properties of whole runs (specification SpecScript)
\* ------------------------------------------------------------------------
\* the first input file the script reads does not exist
MissingInput ==
    \/ files.main = "missing"
    \/ files.main = "ok" /\ files.plan = "missing"

\* the run reads its input: plot_midi_timeline.py reads it only for a plot
\* or a report
ReadsInput == script # "timeline" \/ opts.graph \/ opts.report

\* the formats of the chart files the options ask for
FormatSet == IF opts.format = "both" THEN {"png", "svg"} ELSE {opts.format}

\* the output files the options ask for
Requested ==
    (IF opts.graph /\ script # "csv" THEN FormatSet ELSE {})
        \cup (IF opts.report /\ script # "csv" THEN {"report"} ELSE {})

C17_BadInputHandled ==
    (files.main # "ok" \/ files.plan # "ok") => ~raised

\* C18: when the MIDI file exists but cannot be parsed,
\* analyze_synchronization ends having reported the error, with no graph,
\* no report and no output directory created.
C18_NoOutputOnParseError ==
    (script = "sync" /\ files.main = "malformed" /\ pc = "exit")
        => /\ "read_error" \in printed
           /\ disk = NothingOnDisk

\* C19: in each script that produces more than one artifact, a run on good
\* input ends with nothing raised and with every requested artifact
\* written, except the ones whose own writing failed.
C19_OtherArtifactsGenerated ==
    (script \in {"sync", "trace", "timeline"} /\ pc = "exit"
     /\ files.main = "ok" /\ files.plan = "ok")
        => /\ ~raised
           /\ \A a \in Requested :
                 \/ disk[a] = "complete"
                 \/ a \in failed
                 \/ a # "report" /\ "graph" \in failed

\* C20: when the process is interrupted, every output file on disk is
\* either absent or holds its complete content.
C20_NoPartialFile ==
    pc = "interrupted"
        => \A a \in OutputFiles : disk[a] \in {"absent", "complete"}


\* ------------------------------------------------------------------------
\* Properties of the graph panel and of the report (specification SpecReport)
\* ------------------------------------------------------------------------
\* the report has been built and its file opened
ReportBuilt == report_content # None

\* C21: when a role has no deviation, the report is still built without
\* error, holds the 'no events detected' status in place of that role's
\* metrics, has no comparative section and ends on the 'limited analysis'
\* conclusion; also when both roles are empty.
C21_EmptyRoleReport ==
    /\ ~raised
    /\ (ReportBuilt /\ (theremin_deviations = <<>> \/ keyboard_deviations = <<>>))
        => LET r == report_content[1]
           IN  /\ r.theremin_section = "no_events" <=> theremin_deviations = <<>>
               /\ r.keyboard_section = "no_events" <=> keyboard_deviations = <<>>
               /\ r.theremin_section \in {"no_events", "metrics"}
               /\ r.keyboard_section \in {"no_events", "metrics"}
               /\ ~r.comparative
               /\ r.better_precision = "" /\ r.better_offset = ""
               /\ r.conclusion = "limited"

\* the report of a run with theremin deviations and no keyboard deviation
\* is on disk
C21_Witness ==
    /\ theremin_deviations # <<>>
    /\ keyboard_deviations = <<>>
    /\ ReportBuilt
    /\ disk["report"] = "complete"
    /\ report_content[1].keyboard_section = "no_events"
    /\ report_content[1].theremin_section = "metrics"

\* the instrument a label of the panel or of the report names
Instrument(label) ==
    IF label \in {"Theremin", "Web Theremin"} THEN "theremin" ELSE "keyboard"

\* C26: for non-empty theremin and keyboard deviations, the panel of the
\* graph and the report name the same instrument as the more precise one
\* and the same instrument as the one with the smaller systematic offset.
C26_PanelAndReportAgree ==
    (stats_text # None /\ report_content # None
     /\ theremin_deviations # <<>> /\ keyboard_deviations # <<>>)
        => /\ Instrument(stats_text[1].better_instrument)
                = Instrument(report_content[1].better_precision)
           /\ Instrument(stats_text[1].offset_menor)
                = Instrument(report_content[1].better_offset)

\* C27: analyze_synchronization prints its final 'analysis complete, files
\* saved' message only in runs in which a requested graph file or the
\* report was written.
C27_CompleteOnlyIfWritten ==
    (script = "sync" /\ "complete" \in printed)
        => \E a \in OutputFiles : disk[a] = "complete"


\* ------------------------------------------------------------------------
\* Properties of convert_midi_to_csv (specification SpecCsv)
\* ------------------------------------------------------------------------
\* the cells of row i that depend on the type of message i
FieldsFilled(i) ==
    LET msg == mid[i]
        row == rows[i]
    IN  /\ row.type = msg.type
        /\ IF msg.type \in {"note_on", "note_off"}
           THEN row.note = Some(msg.note) /\ row.velocity = Some(msg.velocity)
           ELSE row.note = None /\ row.velocity = None
        /\ IF msg.type = "control_change"
           THEN row.control = Some(msg.control) /\ row.value = Some(msg.value)
           ELSE row.control = None /\ row.value = None
        /\ IF msg.type = "program_change"
           THEN row.program = Some(msg.program)
           ELSE row.program = None

\* one row per message written so far, in stream order, and one row per
\* message of the stream when the conversion has ended
OneRowPerMessage ==
    /\ Len(rows) = idx
    /\ (pc = "exit" /\ ~raised) => Len(rows) = Len(mid)
    /\ \A i \in 1..Len(rows) : FieldsFilled(i)

\* C22 as stated: one row per message, in stream order, the fields filled
\* by type, and the timestamp equal to the running sum of the deltas up to
\* and including the row's message.
C22_Original ==
    /\ OneRowPerMessage
    /\ \A i \in 1..Len(rows) : rows[i].timestamp_s = PrefixTime(i)

\* C22: one row per message, in stream order, the fields filled by type,
\* and the timestamp equal to the running sum of the deltas up to and
\* including the row's message, rounded to a whole number of microseconds.
C22_OneRowPerMessage ==
    /\ OneRowPerMessage
    /\ \A i \in 1..Len(rows) : rows[i].timestamp_s = Round6(PrefixTime(i))

\* a note_off row after a control_change row, both written and the file
\* closed, the second timestamp not a whole number of microseconds before
\* rounding
C22_Witness ==
    /\ pc = "exit"
    /\ ~raised
    /\ Len(rows) = 2
    /\ mid[1].type = "control_change"
    /\ mid[2].type = "note_off"
    /\ PrefixTime(2) % 3 # 0
    /\ disk["csv"] = "complete"


C24_NoDivisionByZero ==
    (script = "trace" /\ Len(Timestamps(trace)) >= 2 /\ pc # "trace_load")
        => /\ ~raised
           /\ results # None

\* C28: in every results record, the five bucket counts sum to the number
\* of intervals, which is the number of frame timestamps minus one, and
\* total_frames is the number of frame timestamps.
C28_BucketsPartition ==
    results # None
        => LET r == results[1]
               buckets == r.fps_distribution
           IN  /\ buckets["<10"] + buckets["10-15"] + buckets["15-20"]
                    + buckets["20-30"] + buckets[">30"] = Len(r.intervals)
               /\ Len(r.intervals) = Len(Timestamps(trace)) - 1
               /\ r.fps_analysis.total_frames = Len(Timestamps(trace))
               /\ r.timestamps = Timestamps(trace)

\* results of a trace with an interval of exactly 50 ms (20 FPS) and one
\* of another bucket
C28_Witness ==
    /\ results # None
    /\ Len(results[1].intervals) = 2
    /\ \E i \in 1..2 : results[1].intervals[i] = 50
    /\ results[1].fps_distribution["20-30"] = 1
    /\ results[1].fps_distribution[">30"] = 1


\* ------------------------------------------------------------------------
\* Properties of analyze_gesture_detection (specification SpecGesture)
\* ------------------------------------------------------------------------
Analysed == analysis_results # None

\* r lies between 0 and 1 inclusive
InUnitInterval(r) == ~RLess(r, Zero) /\ ~RLess(FromInt(1), r)

\* C25: every detection rate of a section or of a subsection lies in
\* [0, 1], and so do the best, worst and average rates of the summary.
C25_RatesInUnitInterval ==
    Analysed
        => LET a == analysis_results[1]
               rates == DetectionRates(a.sections)
           IN  /\ \A k \in 1..Len(rates) : InUnitInterval(rates[k])
               /\ InUnitInterval(a.summary.best_detection_rate)
               /\ InUnitInterval(a.summary.worst_detection_rate)
               /\ InUnitInterval(a.summary.average_detection_rate)

\* the number of gestures the sections of the analysis cover
GesturesCovered(sections) ==
    SumSeq([k \in 1..Len(sections) |->
               IF "subsections" \in DOMAIN sections[k]
               THEN Len(sections[k].subsections) ELSE 1])

\* C29: the analysis of every plan is made and covers every gesture exactly
\* once, alone when its time range is unique in the plan and as a
\* subsection of the group of its time range otherwise; sections_analyzed
\* is the number of distinct time ranges and total_planned_attempts the
\* sum of the attempts of all gestures (16 when not given).
C29_EveryGestureOnce ==
    (script = "timeline" /\ pc # "timeline_analyze")
        => /\ ~raised
           /\ Analysed
           /\ LET a == analysis_results[1]
                  gs == plan.gestures
              IN  /\ GesturesCovered(a.sections) = Len(gs)
                  /\ \A i \in 1..Len(gs) :
                        \E k \in 1..Len(a.sections) :
                           /\ a.sections[k].time_range_beats
                                 = gs[i].time_range_beats
                           /\ ("subsections" \in DOMAIN a.sections[k])
                                 <=> Len(SameRange(gs, i)) > 1
                  /\ a.summary.sections_analyzed
                        = Cardinality({gs[i].time_range_beats : i \in 1..Len(gs)})
                  /\ a.summary.total_planned_attempts
                        = SumSeq([i \in 1..Len(gs) |-> Attempts(gs[i])])

\* each section of the plan starts at the beat where the previous one ends
Consecutive(gs) ==
    \A i \in 1..(Len(gs) - 1) :
        /\ gs[i].time_range_beats.end = gs[i + 1].time_range_beats.start
        /\ gs[i].time_range_beats.start < gs[i].time_range_beats.end

\* C30: for a plan of consecutive, non-overlapping beat ranges, every MIDI
\* event is counted in the total_events of at most one section, so the
\* total_events of the sections add up to at most the number of events.
C30_EventInOneSection ==
    (Analysed /\ Consecutive(plan.gestures))
        => SumSeq([k \in 1..Len(analysis_results[1].sections) |->
                      analysis_results[1].sections[k].total_events])
              <= Len(df)

====
